---------------------------- MODULE Spec2Model ----------------------------
(***************************************************************************)
(* Model of the two scripts of the repository.                             *)
(*                                                                         *)
(*   scripts/powertouch.py  the HTTP relay (PowerTouchHandler on a         *)
(*                          ThreadingTCPServer) and its mDNS announcer     *)
(*                          (ZeroconfAdvertiser), run by __main__.         *)
(*                          Specifications Spec, FairSpec, ConcSpec.       *)
(*   scripts/spotless.py    the format-on-commit wrapper.                  *)
(*                          Specification SpotlessSpec.                    *)
(*                                                                         *)
(* Times are in milliseconds.  Strings the scripts take apart character by *)
(* character (git's output, file names) are sequences of one-character     *)
(* strings; strings they only compare or concatenate are TLA+ strings.     *)
(***************************************************************************)
EXTENDS Integers, Sequences, FiniteSets, TLC

VARIABLES
    \* ---- powertouch.py: __main__ and ZeroconfAdvertiser
    mpc,        \* position of the main thread in __main__
    zc,         \* advertiser.zeroconf: "none", "open" or "closed"
    info,       \* advertiser.info: NoInfo (None) or the ServiceInfo record
    registered, \* whether the record is registered with zeroconf
    listening,  \* whether the server socket is bound and accepting
    exc,        \* exception propagating in the main thread ("none" if none)
    mainLog,    \* the main thread's externally visible events, in order
    \* ---- powertouch.py: one request-handling thread per connection
    method,     \* request method of connection r
    path,       \* self.path of connection r
    hpc,        \* position of the handler thread of connection r
    status,     \* status code sent on connection r (0: none yet)
    body,       \* response body written on connection r
    started,    \* number of background threads started for connection r
    \* ---- powertouch.py: the background thread of connection r
    target,     \* Thread(target=...): "send_request", "short_touch", ...
    arg,        \* Thread(args=...): the url for send_request
    bpc,        \* index of the next statement of the thread body
    bsub,       \* "idle", "open" (inside urlopen), "asleep" (inside sleep)
    printed,    \* urls of the "Error requesting ..." lines the thread printed
    slept,      \* milliseconds the thread has spent in time.sleep
    calls,      \* every downstream request issued, in order: <<r, url>>
    \* ---- spotless.py
    platform,          \* platform.system()
    staged,            \* names of the files staged in the index, as git lists them
    gradleExec,        \* the build-tool script chosen for the platform
    stdout,            \* result.stdout of "git diff --cached --name-only"
    staged_files,      \* the list the script parses out of stdout
    formattable_files, \* the entries of staged_files the filter keeps
    gradleCalls,       \* every formatter invocation: its command line
    returncode,        \* process.returncode of the formatter
    gitAdds,           \* the argument of every "git add" run, in order
    addIdx,            \* position of the final for loop in formattable_files
    spc,               \* position of the script
    exitStatus         \* exit status of the script as its parent sees it

relayVars == <<mpc, zc, info, registered, listening, exc, mainLog,
               method, path, hpc, status, body, started,
               target, arg, bpc, bsub, printed, slept, calls>>

spotlessVars == <<platform, staged, gradleExec, stdout, staged_files,
                  formattable_files, gradleCalls, returncode, gitAdds,
                  addIdx, spc, exitStatus>>

vars == <<relayVars, spotlessVars>>

-----------------------------------------------------------------------------
(* Bounds of the model *)

\* number of connections the server accepts in a run of Spec and FairSpec
MaxReq == 1

\* number of connections the server accepts in a run of ConcSpec
MaxConc == 2

\* largest signal number that kills the formatter in a run
MaxSignal == 2

\* largest number of files staged in a run
MaxStaged == 2

-----------------------------------------------------------------------------
(* powertouch.py: constants and pure functions *)

BASE_URL == "http://192.168.7.1"

USB_PORT == 6

PORT == 8080

\* time.sleep(0.3) in short_touch
ShortTouchSleepMs == 300

\* time.sleep(3) in long_touch
LongTouchSleepMs == 3000

get_endpoint(p) == BASE_URL \o "/usb" \o ToString(USB_PORT) \o "/" \o p

Conns == 1..MaxConc

Methods == {"GET", "POST"}

KnownPaths == {"/powerOn", "/powerOff", "/shortTouch", "/longTouch"}

\* request paths a client may send: the known ones and some that are not
Paths == KnownPaths \cup {"/unknown", "/powerOn/"}

\* what urlopen can do: return, raise at once, or raise after the timeout
UrlOutcomes == {"ok", "error", "timeout"}

OkBody == "{\"status\": \"OK\"}"

ReqStmt(url) == [op |-> "send_request", url |-> url, ms |-> 0]

SleepStmt(ms) == [op |-> "sleep", url |-> "", ms |-> ms]

short_touch ==
    << ReqStmt(get_endpoint("touch/on")),
       SleepStmt(ShortTouchSleepMs),
       ReqStmt(get_endpoint("touch/off")) >>

\* mutant of long_touch: the sleep of short_touch, copied unchanged
long_touch_short_sleep ==
    << ReqStmt(get_endpoint("touch/on")),
       SleepStmt(ShortTouchSleepMs),
       ReqStmt(get_endpoint("touch/off")) >>

long_touch ==
    << ReqStmt(get_endpoint("touch/on")),
       SleepStmt(LongTouchSleepMs),
       ReqStmt(get_endpoint("touch/off")) >>

\* the statements a background thread runs, from its target and argument
ThreadBody(t, a) ==
    CASE t = "send_request" -> << ReqStmt(a) >>
      [] t = "short_touch"  -> short_touch
      [] t = "long_touch"   -> long_touch
      [] OTHER              -> << >>

Body(r) == ThreadBody(target[r], arg[r])

Finished(r) == target[r] # "none" /\ bpc[r] > Len(Body(r))

\* self.info = None
NoInfo == [type |-> "", name |-> "", port |-> 0, properties |-> "", server |-> ""]

\* the ServiceInfo that start() builds (its address, from get_ip, is left out)
ServiceInfo(port) ==
    [type |-> "_powertouch._tcp.local.",
     name |-> "PowerTouchServer._powertouch._tcp.local.",
     port |-> port, properties |-> "path=/", server |-> "powertouch.local."]

-----------------------------------------------------------------------------
(* powertouch.py: initial state *)

RelayInit ==
    /\ mpc = "construct"
    /\ zc = "none"
    /\ info = NoInfo
    /\ registered = FALSE
    /\ listening = FALSE
    /\ exc = "none"
    /\ mainLog = << >>
    /\ method = [r \in Conns |-> ""]
    /\ path = [r \in Conns |-> ""]
    /\ hpc = [r \in Conns |-> "idle"]
    /\ status = [r \in Conns |-> 0]
    /\ body = [r \in Conns |-> ""]
    /\ started = [r \in Conns |-> 0]
    /\ target = [r \in Conns |-> "none"]
    /\ arg = [r \in Conns |-> ""]
    /\ bpc = [r \in Conns |-> 0]
    /\ bsub = [r \in Conns |-> "idle"]
    /\ printed = [r \in Conns |-> << >>]
    /\ slept = [r \in Conns |-> 0]
    /\ calls = << >>

handlerVars == <<method, path, hpc, status, body, started>>

bgVars == <<target, arg, bpc, bsub, printed, slept, calls>>

mainVars == <<mpc, zc, info, registered, listening, exc, mainLog>>

-----------------------------------------------------------------------------
(* powertouch.py: __main__ and ZeroconfAdvertiser *)

\* advertiser = ZeroconfAdvertiser(PORT)
AdvertiserInit ==
    /\ mpc = "construct"
    /\ zc' = "open"
    /\ mpc' = "start"
    /\ UNCHANGED <<info, registered, listening, exc, mainLog>>
    /\ UNCHANGED <<handlerVars, bgVars, spotlessVars>>

\* advertiser.start(): get_ip, build the record, register it
AdvertiserStart ==
    /\ mpc = "start"
    /\ info' = ServiceInfo(PORT)
    /\ registered' = TRUE
    /\ mainLog' = Append(mainLog, "register")
    /\ mpc' = "bind"
    /\ UNCHANGED <<zc, listening, exc>>
    /\ UNCHANGED <<handlerVars, bgVars, spotlessVars>>

\* advertiser.start() when register_service raises: start() is called outside
\* the try statement, so the exception ends the script with no cleanup
AdvertiserStartFails ==
    /\ mpc = "start"
    /\ info' = ServiceInfo(PORT)
    /\ exc' = "Exception"
    /\ mpc' = "exited"
    /\ UNCHANGED <<zc, registered, listening, mainLog>>
    /\ UNCHANGED <<handlerVars, bgVars, spotlessVars>>

\* with socketserver.ThreadingTCPServer(("", PORT), ...) as httpd: the bind
\* succeeds and serve_forever starts accepting
ServerBind ==
    /\ mpc = "bind"
    /\ listening' = TRUE
    /\ mainLog' = Append(mainLog, "accepting")
    /\ mpc' = "serving"
    /\ UNCHANGED <<zc, info, registered, exc>>
    /\ UNCHANGED <<handlerVars, bgVars, spotlessVars>>

\* the constructor raises OSError (the port is taken): control goes to finally
ServerBindFails ==
    /\ mpc = "bind"
    /\ exc' = "OSError"
    /\ mpc' = "finally"
    /\ UNCHANGED <<zc, info, registered, listening, mainLog>>
    /\ UNCHANGED <<handlerVars, bgVars, spotlessVars>>

\* mutant of ServeInterrupted: the server is not used as a context manager, so
\* nothing closes its socket before the finally clause runs
ServeInterrupted_no_close ==
    /\ mpc = "serving"
    /\ \E e \in {"KeyboardInterrupt", "Exception"} : exc' = e
    /\ mpc' = "join"
    /\ UNCHANGED <<zc, info, registered, listening, mainLog>>
    /\ UNCHANGED <<handlerVars, bgVars, spotlessVars>>

\* serve_forever is left by an exception, KeyboardInterrupt or any other, and
\* the with statement's exit runs httpd.server_close(), which closes the
\* listening socket
ServeInterrupted ==
    /\ mpc = "serving"
    /\ \E e \in {"KeyboardInterrupt", "Exception"} : exc' = e
    /\ listening' = FALSE
    /\ mainLog' = Append(mainLog, "server_close")
    /\ mpc' = "join"
    /\ UNCHANGED <<zc, info, registered>>
    /\ UNCHANGED <<handlerVars, bgVars, spotlessVars>>

\* ThreadingMixIn.server_close then joins the request-handling threads;
\* "except KeyboardInterrupt: pass" clears that exception and no other
JoinHandlers ==
    /\ mpc = "join"
    /\ \A r \in Conns : hpc[r] \in {"idle", "done"}
    /\ exc' = IF exc = "KeyboardInterrupt" THEN "none" ELSE exc
    /\ mpc' = "finally"
    /\ UNCHANGED <<zc, info, registered, listening, mainLog>>
    /\ UNCHANGED <<handlerVars, bgVars, spotlessVars>>

\* advertiser.stop(), first statement: if self.info: unregister_service
StopUnregister ==
    /\ mpc = "finally"
    /\ IF info # NoInfo
         THEN /\ registered' = FALSE
              /\ mainLog' = Append(mainLog, "unregister")
         ELSE UNCHANGED <<registered, mainLog>>
    /\ mpc' = "stop_close"
    /\ UNCHANGED <<zc, info, listening, exc>>
    /\ UNCHANGED <<handlerVars, bgVars, spotlessVars>>

\* advertiser.stop(), second statement: self.zeroconf.close(); the script ends
StopClose ==
    /\ mpc = "stop_close"
    /\ zc' = "closed"
    /\ mainLog' = Append(mainLog, "zeroconf_close")
    /\ mpc' = "exited"
    /\ UNCHANGED <<info, registered, listening, exc>>
    /\ UNCHANGED <<handlerVars, bgVars, spotlessVars>>

-----------------------------------------------------------------------------
(* powertouch.py: PowerTouchHandler, one thread per accepted connection *)

\* serve_forever accepts a connection and hands the parsed request to a new
\* request-handling thread; connections are numbered in the order accepted
Accept(r) ==
    /\ mpc = "serving"
    /\ hpc[r] = "idle"
    /\ \A q \in Conns : q < r => hpc[q] # "idle"
    /\ \E m \in Methods, p \in Paths :
          /\ method' = [method EXCEPT ![r] = m]
          /\ path' = [path EXCEPT ![r] = p]
    /\ hpc' = [hpc EXCEPT ![r] = "dispatch"]
    /\ UNCHANGED <<status, body, started>>
    /\ UNCHANGED <<mainVars, bgVars, spotlessVars>>

\* mutant of route: the first branch tests self.path.startswith("/powerOn/")
\* as well as equality
route_startswith(p) ==
    CASE p \in {"/powerOn", "/powerOn/"}
                           -> << "send_request", get_endpoint("power/on") >>
      [] p = "/powerOff"   -> << "send_request", get_endpoint("power/off") >>
      [] p = "/shortTouch" -> << "short_touch", "" >>
      [] p = "/longTouch"  -> << "long_touch", "" >>
      [] OTHER             -> << >>

\* the if/elif chain of do_GET as a function of self.path: the thread target
\* and its argument, or << >> when no branch matches (the else branch)
route(p) ==
    CASE p = "/powerOn"    -> << "send_request", get_endpoint("power/on") >>
      [] p = "/powerOff"   -> << "send_request", get_endpoint("power/off") >>
      [] p = "/shortTouch" -> << "short_touch", "" >>
      [] p = "/longTouch"  -> << "long_touch", "" >>
      [] OTHER             -> << >>

\* threading.Thread(target=t, args=(a,)).start()
StartThread(r, t, a) ==
    /\ target' = [target EXCEPT ![r] = t]
    /\ arg' = [arg EXCEPT ![r] = a]
    /\ bpc' = [bpc EXCEPT ![r] = 1]
    /\ started' = [started EXCEPT ![r] = @ + 1]
    /\ hpc' = [hpc EXCEPT ![r] = "respond"]
    /\ UNCHANGED <<status, body>>

\* self.send_error(404, "Not Found")
send_error(r, code, message) ==
    /\ status' = [status EXCEPT ![r] = code]
    /\ body' = [body EXCEPT ![r] = message]
    /\ hpc' = [hpc EXCEPT ![r] = "done"]
    /\ UNCHANGED <<target, arg, bpc, started>>

\* mutant of do_GET_body: the path is kept in an attribute all handlers share,
\* so the chain tests the path of the connection accepted last
do_GET_body_shared(r) ==
    /\ hpc[r] = "dispatch"
    /\ LET last == CHOOSE q \in Conns :
                       hpc[q] # "idle" /\ \A q2 \in Conns : q2 > q => hpc[q2] = "idle"
       IN  IF route(path[last]) # << >>
             THEN StartThread(r, route(path[last])[1], route(path[last])[2])
             ELSE send_error(r, 404, "Not Found")
    /\ UNCHANGED <<method, path>>
    /\ UNCHANGED <<bsub, printed, slept, calls>>
    /\ UNCHANGED <<mainVars, spotlessVars>>

\* do_GET up to the call of respond_ok: a matching branch starts its thread,
\* the else branch sends the error
do_GET_body(r) ==
    /\ hpc[r] = "dispatch"
    /\ IF route(path[r]) # << >>
         THEN StartThread(r, route(path[r])[1], route(path[r])[2])
         ELSE send_error(r, 404, "Not Found")
    /\ UNCHANGED <<method, path>>
    /\ UNCHANGED <<bsub, printed, slept, calls>>
    /\ UNCHANGED <<mainVars, spotlessVars>>

do_GET(r) ==
    /\ method[r] = "GET"
    /\ do_GET_body(r)

\* mutant of do_POST: the handler has no do_POST, and the base class answers
\* 501 to the method
do_POST_unsupported(r) ==
    /\ method[r] = "POST"
    /\ hpc[r] = "dispatch"
    /\ send_error(r, 501, "Unsupported method ('POST')")
    /\ UNCHANGED <<method, path>>
    /\ UNCHANGED <<bsub, printed, slept, calls>>
    /\ UNCHANGED <<mainVars, spotlessVars>>

\* do_POST: self.do_GET()
do_POST(r) ==
    /\ method[r] = "POST"
    /\ do_GET_body(r)

\* mutant of respond_ok: the handler joins its background thread first
respond_ok_joined(r) ==
    /\ hpc[r] = "respond"
    /\ target[r] # "none" /\ bpc[r] > Len(ThreadBody(target[r], arg[r]))
    /\ status' = [status EXCEPT ![r] = 200]
    /\ body' = [body EXCEPT ![r] = OkBody]
    /\ hpc' = [hpc EXCEPT ![r] = "done"]
    /\ UNCHANGED <<method, path, started>>
    /\ UNCHANGED <<mainVars, bgVars, spotlessVars>>

\* respond_ok: send_response(200), the header, the body; it waits for nothing
respond_ok(r) ==
    /\ hpc[r] = "respond"
    /\ status' = [status EXCEPT ![r] = 200]
    /\ body' = [body EXCEPT ![r] = OkBody]
    /\ hpc' = [hpc EXCEPT ![r] = "done"]
    /\ UNCHANGED <<method, path, started>>
    /\ UNCHANGED <<mainVars, bgVars, spotlessVars>>

-----------------------------------------------------------------------------
(* powertouch.py: the background thread of a connection *)

Stmt(r) == Body(r)[bpc[r]]

Running(r) == target[r] # "none" /\ bpc[r] \in 1..Len(Body(r))

\* send_request, the try block: urlopen(url, timeout=2) sends the request
UrlOpen(r) ==
    /\ Running(r)
    /\ Stmt(r).op = "send_request"
    /\ bsub[r] = "idle"
    /\ calls' = Append(calls, <<r, Stmt(r).url>>)
    /\ bsub' = [bsub EXCEPT ![r] = "open"]
    /\ UNCHANGED <<target, arg, bpc, printed, slept>>
    /\ UNCHANGED <<mainVars, handlerVars, spotlessVars>>

\* urlopen(url, timeout=2): two seconds pass and no answer has arrived
UrlTimeoutElapses(r) ==
    /\ Running(r)
    /\ bsub[r] = "open"
    /\ bsub' = [bsub EXCEPT ![r] = "expired"]
    /\ UNCHANGED <<target, arg, bpc, printed, slept, calls>>
    /\ UNCHANGED <<mainVars, handlerVars, spotlessVars>>

\* mutant of send_request: no try/except, so a failure of urlopen leaves it
send_request_uncaught(o) == [raised |-> o # "ok", print |-> FALSE]

\* send_request as its caller sees it, for what urlopen did: every Exception
\* is caught and printed, so the call always returns
send_request(o) == [raised |-> FALSE, print |-> o # "ok"]

\* urlopen returns or raises, and send_request ends
SendRequestEnds(r) ==
    /\ Running(r)
    /\ bsub[r] \in {"open", "expired"}
    /\ \E o \in UrlOutcomes :
          /\ (o = "timeout") <=> (bsub[r] = "expired")
          /\ printed' = [printed EXCEPT ![r] =
                 IF send_request(o).print THEN Append(@, Stmt(r).url) ELSE @]
          \* an exception leaving the thread's target ends the thread
          /\ bpc' = [bpc EXCEPT ![r] =
                        IF send_request(o).raised
                          THEN Len(Body(r)) + 1 ELSE @ + 1]
    /\ bsub' = [bsub EXCEPT ![r] = "idle"]
    /\ UNCHANGED <<target, arg, slept, calls>>
    /\ UNCHANGED <<mainVars, handlerVars, spotlessVars>>

\* time.sleep(ms) begins
SleepBegins(r) ==
    /\ Running(r)
    /\ Stmt(r).op = "sleep"
    /\ bsub[r] = "idle"
    /\ bsub' = [bsub EXCEPT ![r] = "asleep"]
    /\ UNCHANGED <<target, arg, bpc, printed, slept, calls>>
    /\ UNCHANGED <<mainVars, handlerVars, spotlessVars>>

\* time.sleep(ms) returns once ms milliseconds have passed
SleepEnds(r) ==
    /\ Running(r)
    /\ bsub[r] = "asleep"
    /\ slept' = [slept EXCEPT ![r] = @ + Stmt(r).ms]
    /\ bpc' = [bpc EXCEPT ![r] = @ + 1]
    /\ bsub' = [bsub EXCEPT ![r] = "idle"]
    /\ UNCHANGED <<target, arg, printed, calls>>
    /\ UNCHANGED <<mainVars, handlerVars, spotlessVars>>

BgStep(r) ==
    \/ UrlOpen(r)
    \/ UrlTimeoutElapses(r)
    \/ SendRequestEnds(r)
    \/ SleepBegins(r)
    \/ SleepEnds(r)

-----------------------------------------------------------------------------
(* spotless.py: strings as the script handles them *)

\* characters str.strip() removes
Whitespace == {" ", "\t", "\n", "\r"}

RECURSIVE lstrip(_)
lstrip(s) ==
    IF s # << >> /\ Head(s) \in Whitespace THEN lstrip(Tail(s)) ELSE s

RECURSIVE rstrip(_)
rstrip(s) ==
    IF s # << >> /\ s[Len(s)] \in Whitespace
      THEN rstrip(SubSeq(s, 1, Len(s) - 1)) ELSE s

\* str.strip(): whitespace is removed from both ends of the whole string
strip(s) == rstrip(lstrip(s))

\* str.split(sep) for a one-character separator
RECURSIVE split(_, _)
split(s, sep) ==
    IF \A i \in 1..Len(s) : s[i] # sep
      THEN << s >>
      ELSE LET i == CHOOSE k \in 1..Len(s) :
                        s[k] = sep /\ \A j \in 1..(k - 1) : s[j] # sep
           IN  << SubSeq(s, 1, i - 1) >> \o split(SubSeq(s, i + 1, Len(s)), sep)

\* sep.join(list)
RECURSIVE join(_, _)
join(sep, list) ==
    IF list = << >> THEN << >>
    ELSE IF Len(list) = 1 THEN list[1]
    ELSE list[1] \o sep \o join(sep, Tail(list))

\* str.endswith(tuple of suffixes)
endswith(s, suffixes) ==
    \E k \in 1..Len(suffixes) :
        LET suf == suffixes[k]
        IN  /\ Len(suf) <= Len(s)
            /\ SubSeq(s, Len(s) - Len(suf) + 1, Len(s)) = suf

\* (".java", ".kt", ".kts")
FormattableSuffixes ==
    << <<".", "j", "a", "v", "a">>, <<".", "k", "t">>, <<".", "k", "t", "s">> >>

\* [f for f in files if f.endswith((".java", ".kt", ".kts"))]
RECURSIVE formattable(_)
formattable(files) ==
    IF files = << >> THEN << >>
    ELSE (IF endswith(Head(files), FormattableSuffixes)
            THEN << Head(files) >> ELSE << >>) \o formattable(Tail(files))

\* result.stdout.strip().split("\n") if result.stdout.strip() else []
parse_staged(out) ==
    IF strip(out) # << >> THEN split(strip(out), "\n") ELSE << >>

\* the status a parent process sees after sys.exit(code): the low 8 bits of
\* code on POSIX; on Windows a status has 32 bits, and the codes of ReturnCodes
\* fit in it unchanged
ExitStatus(plat, code) ==
    IF plat = "Windows" THEN code ELSE code % 256

\* mutant of FormatterFailed: the test is process.returncode > 0
FormatterFailed_positive(rc) == rc > 0

\* if process.returncode != 0
FormatterFailed(rc) == rc # 0

-----------------------------------------------------------------------------
(* spotless.py: the environment: the platform, git and the formatter *)

Platforms == {"Linux", "Windows"}

\* file names that may be staged; git prints such names as they are
NamePool ==
    { <<" ", "F", ".", "k", "t">>,
      <<"A", ".", "j", "a", "v", "a">>,
      <<"B", ".", "k", "t">>,
      <<"C", ".", "k", "t", "s">>,
      <<"D", ".", "m", "d">>,
      <<"Z", ".", "k", "t", " ">>,
      <<"a", "k", "t">>,
      <<"j", ".", "j", "a", "v", "a", "x">> }

\* the names a platform's file system can hold: Windows drops trailing spaces
\* when a file is created, so no file there has a name that ends in one
NamesOn(plat) ==
    IF plat = "Windows" THEN { n \in NamePool : n[Len(n)] # " " } ELSE NamePool

\* the characters of the names, in byte order
ByteOrder ==
    <<" ", ".", "A", "B", "C", "D", "F", "Z",
      "a", "d", "j", "k", "m", "s", "t", "v", "x">>

Byte(c) == CHOOSE i \in 1..Len(ByteOrder) : ByteOrder[i] = c

\* byte-wise comparison of two names, as git orders the index
RECURSIVE NameLess(_, _)
NameLess(a, b) ==
    IF b = << >> THEN FALSE
    ELSE IF a = << >> THEN TRUE
    ELSE IF Head(a) # Head(b) THEN Byte(Head(a)) < Byte(Head(b))
    ELSE NameLess(Tail(a), Tail(b))

\* the names of a set, in the order git lists them
RECURSIVE Sorted(_)
Sorted(S) ==
    IF S = {} THEN << >>
    ELSE LET m == CHOOSE x \in S : \A y \in S \ {x} : NameLess(x, y)
         IN  << m >> \o Sorted(S \ {m})

\* "git diff --cached --name-only": one name per line, every line ended
RECURSIVE GitDiffOutput(_)
GitDiffOutput(names) ==
    IF names = << >> THEN << >>
    ELSE Head(names) \o << "\n" >> \o GitDiffOutput(Tail(names))

\* what subprocess.run can report for the formatter: an exit status, or on
\* POSIX the negated number of the signal that killed it
ReturnCodes(plat) ==
    IF plat = "Windows" THEN {0, 1, 256}
    ELSE {0, 1, 255} \cup { -sig : sig \in 1..MaxSignal }

-----------------------------------------------------------------------------
(* spotless.py: the script, statement by statement *)

SpotlessInit ==
    /\ platform \in Platforms
    /\ \E S \in SUBSET NamesOn(platform) :
          /\ Cardinality(S) <= MaxStaged
          /\ staged = Sorted(S)
    /\ gradleExec = ""
    /\ stdout = << >>
    /\ staged_files = << >>
    /\ formattable_files = << >>
    /\ gradleCalls = << >>
    /\ returncode = 0
    /\ gitAdds = << >>
    /\ addIdx = 0
    /\ spc = "platform"
    /\ exitStatus = -1

\* if platform.system() == "Windows": ... else: ...
ChooseGradle ==
    /\ spc = "platform"
    /\ gradleExec' = IF platform = "Windows" THEN "./gradlew.bat" ELSE "./gradlew"
    /\ spc' = "git_diff"
    /\ UNCHANGED <<platform, staged, stdout, staged_files, formattable_files,
                   gradleCalls, returncode, gitAdds, addIdx, exitStatus>>
    /\ UNCHANGED relayVars

\* result = subprocess.run(["git", "diff", "--cached", ...]); the list
\* comprehensions that parse and filter its output
GitDiff ==
    /\ spc = "git_diff"
    /\ stdout' = GitDiffOutput(staged)
    /\ staged_files' = parse_staged(stdout')
    /\ formattable_files' = formattable(staged_files')
    /\ spc' = "check"
    /\ UNCHANGED <<platform, staged, gradleExec, gradleCalls, returncode,
                   gitAdds, addIdx, exitStatus>>
    /\ UNCHANGED relayVars

\* if not formattable_files: print(...); sys.exit(0)
NothingToFormat ==
    /\ spc = "check"
    /\ formattable_files = << >>
    /\ exitStatus' = ExitStatus(platform, 0)
    /\ spc' = "exited"
    /\ UNCHANGED <<platform, staged, gradleExec, stdout, staged_files,
                   formattable_files, gradleCalls, returncode, gitAdds, addIdx>>
    /\ UNCHANGED relayVars

\* process = subprocess.run([gradleExec, "spotlessApply", "-PspotlessIdeHook=..."])
RunFormatter ==
    /\ spc = "check"
    /\ formattable_files # << >>
    /\ gradleCalls' = Append(gradleCalls,
                             [exec |-> gradleExec, task |-> "spotlessApply",
                              ideHook |-> join(<<",">>, formattable_files)])
    /\ \E rc \in ReturnCodes(platform) : returncode' = rc
    /\ spc' = "returned"
    /\ UNCHANGED <<platform, staged, gradleExec, stdout, staged_files,
                   formattable_files, gitAdds, addIdx, exitStatus>>
    /\ UNCHANGED relayVars

\* if process.returncode != 0: sys.exit(process.returncode)
ExitOnFailure ==
    /\ spc = "returned"
    /\ FormatterFailed(returncode)
    /\ exitStatus' = ExitStatus(platform, returncode)
    /\ spc' = "exited"
    /\ UNCHANGED <<platform, staged, gradleExec, stdout, staged_files,
                   formattable_files, gradleCalls, returncode, gitAdds, addIdx>>
    /\ UNCHANGED relayVars

\* the for loop is entered
EnterAddLoop ==
    /\ spc = "returned"
    /\ ~FormatterFailed(returncode)
    /\ addIdx' = 1
    /\ spc' = "add"
    /\ UNCHANGED <<platform, staged, gradleExec, stdout, staged_files,
                   formattable_files, gradleCalls, returncode, gitAdds,
                   exitStatus>>
    /\ UNCHANGED relayVars

\* for f in formattable_files: subprocess.run(["git", "add", f])
GitAdd ==
    /\ spc = "add"
    /\ addIdx <= Len(formattable_files)
    /\ gitAdds' = Append(gitAdds, formattable_files[addIdx])
    /\ addIdx' = addIdx + 1
    /\ UNCHANGED <<platform, staged, gradleExec, stdout, staged_files,
                   formattable_files, gradleCalls, returncode, spc, exitStatus>>
    /\ UNCHANGED relayVars

\* the loop ends and so does the script, with status 0
EndOfScript ==
    /\ spc = "add"
    /\ addIdx > Len(formattable_files)
    /\ exitStatus' = ExitStatus(platform, 0)
    /\ spc' = "exited"
    /\ UNCHANGED <<platform, staged, gradleExec, stdout, staged_files,
                   formattable_files, gradleCalls, returncode, gitAdds, addIdx>>
    /\ UNCHANGED relayVars

SpotlessNext ==
    \/ ChooseGradle
    \/ GitDiff
    \/ NothingToFormat
    \/ RunFormatter
    \/ ExitOnFailure
    \/ EnterAddLoop
    \/ GitAdd
    \/ EndOfScript

\* the wrapper is a script of its own: powertouch.py does not run beside it
SpotlessSpecInit == SpotlessInit /\ RelayInit

SpotlessSpec == SpotlessSpecInit /\ [][SpotlessNext]_vars

\* the wrapper's variables while only powertouch.py runs
SpotlessIdle ==
    /\ platform = "Linux" /\ staged = << >> /\ gradleExec = "" /\ stdout = << >>
    /\ staged_files = << >> /\ formattable_files = << >>
    /\ gradleCalls = << >> /\ returncode = 0 /\ gitAdds = << >>
    /\ addIdx = 0 /\ spc = "platform" /\ exitStatus = -1

-----------------------------------------------------------------------------
(* powertouch.py: the specification *)

Init == RelayInit /\ SpotlessIdle

MainStep ==
    \/ AdvertiserInit
    \/ AdvertiserStart
    \/ AdvertiserStartFails
    \/ ServerBind
    \/ ServerBindFails
    \/ ServeInterrupted
    \/ JoinHandlers
    \/ StopUnregister
    \/ StopClose

HandlerStep(r) ==
    \/ Accept(r)
    \/ do_GET(r)
    \/ do_POST(r)
    \/ respond_ok(r)

Next ==
    \/ MainStep
    \/ \E r \in 1..MaxReq : HandlerStep(r)
    \/ \E r \in 1..MaxReq : BgStep(r)

Spec == Init /\ [][Next]_vars

\* every started thread is scheduled, urlopen ends (its timeout bounds it) and
\* time.sleep returns
FairSpec == Spec /\ \A r \in 1..MaxReq : WF_vars(BgStep(r))

ConcNext ==
    \/ MainStep
    \/ \E r \in 1..MaxConc : HandlerStep(r)
    \/ \E r \in 1..MaxConc : BgStep(r)

ConcSpec == Init /\ [][ConcNext]_vars

-----------------------------------------------------------------------------
(* Vocabulary of the properties, taken from the specification's tables *)

DeviceUrl(sub) == "http://192.168.7.1/usb6/" \o sub

TouchOn == DeviceUrl("touch/on")

TouchOff == DeviceUrl("touch/off")

FourPaths == {"/powerOn", "/powerOff", "/shortTouch", "/longTouch"}

TouchPaths == {"/shortTouch", "/longTouch"}

\* the downstream requests one request for path p is to cause, in order
ExpectedCalls(p) ==
    CASE p = "/powerOn"    -> << DeviceUrl("power/on") >>
      [] p = "/powerOff"   -> << DeviceUrl("power/off") >>
      [] p \in TouchPaths  -> << TouchOn, TouchOff >>
      [] OTHER             -> << >>

\* the wait between touch/on and touch/off, in milliseconds
ExpectedWait(p) == IF p = "/shortTouch" THEN 300 ELSE 3000

\* the urls of the downstream requests issued for connection r, in order
RECURSIVE UrlsOf(_, _)
UrlsOf(r, log) ==
    IF log = << >> THEN << >>
    ELSE (IF Head(log)[1] = r THEN << Head(log)[2] >> ELSE << >>)
            \o UrlsOf(r, Tail(log))

Issued(r) == UrlsOf(r, calls)

IsPrefix(a, b) == Len(a) <= Len(b) /\ SubSeq(b, 1, Len(a)) = a

Accepted(r) == hpc[r] # "idle"

-----------------------------------------------------------------------------
(* Properties of powertouch.py *)

\* C1: a GET or a POST to one of the four known paths is answered with status
\* 200 and the body {"status": "OK"}, whatever became of the downstream call.
C1_KnownPathAnswered200 ==
    \A r \in Conns :
        (Accepted(r) /\ path[r] \in FourPaths) =>
            /\ method[r] \in {"GET", "POST"}
            /\ hpc[r] \in {"dispatch", "respond", "done"}
            /\ hpc[r] = "done" => (status[r] = 200 /\ body[r] = "{\"status\": \"OK\"}")
            /\ hpc[r] # "done" => status[r] = 0

\* a POST to /longTouch was answered 200 and both its downstream calls failed
C1_Witness ==
    \E r \in Conns :
        /\ method[r] = "POST" /\ path[r] = "/longTouch"
        /\ hpc[r] = "done" /\ status[r] = 200 /\ body[r] = "{\"status\": \"OK\"}"
        /\ printed[r] = << TouchOn, TouchOff >>

\* C2: a GET or a POST to any other path is answered 404, starts no
\* background thread and issues no downstream call.
C2_UnknownPath404 ==
    \A r \in Conns :
        (Accepted(r) /\ path[r] \notin FourPaths) =>
            /\ hpc[r] \in {"dispatch", "done"}
            /\ hpc[r] = "done" => status[r] = 404
            /\ started[r] = 0
            /\ target[r] = "none" /\ bpc[r] = 0
            /\ Issued(r) = << >>

\* a POST to /powerOn/ (one character more than a known path) got its 404
C2_Witness ==
    \E r \in Conns :
        /\ method[r] = "POST" /\ path[r] = "/powerOn/"
        /\ hpc[r] = "done" /\ status[r] = 404
        /\ started[r] = 0 /\ calls = << >>

\* C3: a touch request issues touch/on, waits (300 ms for shortTouch, 3 s for
\* longTouch), then issues touch/off: touch/off is issued only after touch/on
\* has returned and the wait has passed, and each is issued exactly once.
C3_TouchOnWaitTouchOff ==
    \A r \in Conns :
        (Accepted(r) /\ path[r] \in TouchPaths) =>
            /\ Issued(r) \in { << >>, << TouchOn >>, << TouchOn, TouchOff >> }
            /\ slept[r] \in {0, ExpectedWait(path[r])}
            /\ Issued(r) = << TouchOn, TouchOff >> =>
                  /\ slept[r] = ExpectedWait(path[r])
                  /\ bpc[r] >= 3
            /\ slept[r] # 0 => (bpc[r] >= 3 /\ Issued(r) # << >>)
            /\ (bpc[r] >= 2 \/ bsub[r] # "idle") => Issued(r) # << >>
            /\ Finished(r) => Issued(r) = << TouchOn, TouchOff >>

\* a longTouch thread has finished: on, three seconds, off
C3_Witness ==
    \E r \in Conns :
        /\ path[r] = "/longTouch" /\ Finished(r)
        /\ Issued(r) = << TouchOn, TouchOff >> /\ slept[r] = 3000

\* C4: the handler sends the 200 after only starting the background thread:
\* it is never made to wait, whatever the thread is doing, so the response
\* can be complete while the downstream call is pending or has not begun.
C4_ResponseNeverWaits ==
    \A r \in Conns :
        hpc[r] = "respond" =>
            /\ started[r] = 1
            /\ ENABLED respond_ok(r)

\* the response is complete while the downstream call of the same request has
\* been blocked for its whole timeout and has not returned
C4_Witness ==
    \E r \in Conns :
        /\ hpc[r] = "done" /\ status[r] = 200
        /\ bpc[r] = 1 /\ bsub[r] = "expired"
        /\ printed[r] = << >>

MainOrderServed ==
    << "register", "accepting", "server_close", "unregister", "zeroconf_close" >>

MainOrderBindFailed == << "register", "unregister", "zeroconf_close" >>

\* C8: the record is registered before the server accepts; on every exit path
\* after the announcer has started the server stops accepting, then the
\* record is unregistered, then zeroconf is closed; the record is never
\* unregistered while the server accepts.
C8_ShutdownOrder ==
    /\ IsPrefix(mainLog, MainOrderServed) \/ IsPrefix(mainLog, MainOrderBindFailed)
    /\ listening => (registered /\ zc = "open")
    /\ zc = "closed" => (~registered /\ ~listening)
    /\ (mpc = "exited" /\ mainLog # << >>) =>
          /\ mainLog \in {MainOrderServed, MainOrderBindFailed}
          /\ ~registered /\ ~listening /\ zc = "closed"
    /\ (\E r \in Conns : Accepted(r)) =>
          IsPrefix(<< "register", "accepting" >>, mainLog)

\* the server served a request, was stopped by an exception other than
\* KeyboardInterrupt, and the cleanup ran to its end
C8_Witness ==
    /\ mpc = "exited" /\ exc = "Exception"
    /\ mainLog = MainOrderServed
    /\ \E r \in Conns : status[r] = 200

\* the part of C9 that every state shows: no url is issued twice, a finished
\* touch thread has issued both calls around its wait, the response is 200
C9_Safety ==
    \A r \in Conns :
        /\ Len(Issued(r)) <= Len(ExpectedCalls(path[r]))
        /\ \A i, j \in 1..Len(Issued(r)) : i # j => Issued(r)[i] # Issued(r)[j]
        /\ IsPrefix(printed[r], Issued(r)) \/ printed[r] = << TouchOff >>
        /\ (Finished(r) /\ path[r] \in TouchPaths) =>
              (Issued(r) = << TouchOn, TouchOff >> /\ slept[r] = ExpectedWait(path[r]))
        /\ (hpc[r] = "done" /\ path[r] \in FourPaths) => status[r] = 200

TouchOnFailed(r) == printed[r] # << >> /\ printed[r][1] = TouchOn

\* C9: a failed downstream call is only caught and printed: when touch/on
\* fails or times out, touch/off is still issued after the wait and the
\* thread ends; the response is as ever and no url is tried twice.
C9_FailureDoesNotAbort ==
    /\ []C9_Safety
    /\ \A r \in Conns :
          TouchOnFailed(r) ~>
              (Finished(r) /\ Issued(r) = << TouchOn, TouchOff >>)

\* touch/on failed, touch/off was issued all the same and succeeded, the
\* thread has ended and the request was answered 200
C9_Witness ==
    \E r \in Conns :
        /\ printed[r] = << TouchOn >>
        /\ Finished(r) /\ Issued(r) = << TouchOn, TouchOff >>
        /\ hpc[r] = "done" /\ status[r] = 200

\* C10: under any interleaving, each known-path request starts one thread,
\* the downstream calls are those of the requests, each request's in its own
\* order, and no request's response or calls depend on another request.
C10_RequestsIndependent ==
    /\ \A r \in Conns :
          /\ started[r] = IF hpc[r] \in {"respond", "done"} /\ path[r] \in FourPaths
                            THEN 1 ELSE 0
          /\ IsPrefix(Issued(r), ExpectedCalls(path[r]))
          /\ Finished(r) => Issued(r) = ExpectedCalls(path[r])
          /\ hpc[r] = "done" =>
                status[r] = IF path[r] \in FourPaths THEN 200 ELSE 404
    /\ \A i \in 1..Len(calls) : Accepted(calls[i][1])

\* two touch requests ran to their ends with their downstream calls interleaved
C10_Witness ==
    /\ path[1] = "/shortTouch" /\ path[2] = "/longTouch"
    /\ Finished(1) /\ Finished(2)
    /\ calls = << <<2, TouchOn>>, <<1, TouchOn>>, <<2, TouchOff>>, <<1, TouchOff>> >>
    /\ status[1] = 200 /\ status[2] = 200

-----------------------------------------------------------------------------
(* Properties of spotless.py *)

\* the staged files whose names end in .java, .kt or .kts, in staged order
FormattableStaged == formattable(staged)

FormatterRan == gradleCalls # << >>

\* C5 as stated: when the formatter returns a non-zero code the wrapper exits
\* with exactly that code and runs no git add.
C5_ExitsWithSameCode ==
    (spc = "exited" /\ FormatterRan /\ returncode # 0) =>
        (exitStatus = returncode /\ gitAdds = << >>)

\* C5, amended: when the formatter returns a non-zero code the wrapper runs no
\* git add and exits with a non-zero status: that code, or 256 - N when the
\* code is -N because signal N killed the formatter.
C5_ExitsNonZero ==
    (FormatterRan /\ returncode # 0) =>
        /\ gitAdds = << >>
        /\ spc \in {"returned", "exited"}
        /\ spc = "exited" =>
              /\ exitStatus # 0
              /\ exitStatus = IF returncode < 0 THEN 256 + returncode
                                                ELSE returncode

\* signal 1 killed the formatter: the wrapper exited with 255, nothing added
C5_Witness ==
    /\ spc = "exited" /\ FormatterRan /\ returncode = -1
    /\ exitStatus = 255 /\ gitAdds = << >>

\* C6: when the formatter returns 0, git add is run exactly once for every
\* staged file whose name ends in .java, .kt or .kts, in staged order, and
\* for no other file; exactly those files were passed to the formatter.
C6_ReAddsFormattableStaged ==
    (spc = "exited" /\ FormatterRan /\ returncode = 0) =>
        /\ gitAdds = FormattableStaged
        /\ split(gradleCalls[1].ideHook, ",") = FormattableStaged

\* C7: when no staged file has a .java, .kt or .kts name (or none is staged),
\* the wrapper exits 0 and runs neither the formatter nor git add.
C7_NothingFormattableNoFormatter ==
    FormattableStaged = << >> =>
        /\ ~FormatterRan
        /\ gitAdds = << >>
        /\ spc = "exited" => exitStatus = 0

=============================================================================
